---- MODULE Spec2Model ----
(***************************************************************************)
(* Model of homework.py: the workout calculators (Training and its three   *)
(* subclasses), InfoMessage, read_package, main and the __main__ loop.     *)
(*                                                                         *)
(* Numbers are exact rationals <<n, d>> (d > 0, lowest terms); the binary  *)
(* rounding of Python floats is not modelled.  None is <<>>.               *)
(* A call's outcome is a record: ok with a value, or a raised exception.   *)
(***************************************************************************)
EXTENDS Integers, Sequences, FiniteSets, TLC

VARIABLES workout_type, data, training, op, res, packages, idx, pc, out

vars == <<workout_type, data, training, op, res, packages, idx, pc, out>>

(*************************** bounds of the model ***************************)
MaxData == 6
MaxRows == 3
MaxPrinted == 2

(************************** rational arithmetic ****************************)
\* The primitives are functions, so that an argument is evaluated once.
Abs(x) == IF x < 0 THEN -x ELSE x

GCD[a \in Nat, b \in Nat] == IF b = 0 THEN a ELSE GCD[b, a % b]

Reduce[n \in Int, d \in Int, g \in Nat] ==
    IF d < 0 THEN <<(-n) \div g, (-d) \div g>> ELSE <<n \div g, d \div g>>

Norm(n, d) == Reduce[n, d, GCD[Abs(n), Abs(d)]]

Rat == Int \X Int

R(n) == <<n, 1>>
Q(n, d) == Norm(n, d)

RAddF[a \in Rat, b \in Rat] == Norm(a[1] * b[2] + b[1] * a[2], a[2] * b[2])
RSubF[a \in Rat, b \in Rat] == Norm(a[1] * b[2] - b[1] * a[2], a[2] * b[2])
RMulF[a \in Rat, b \in Rat] == Norm(a[1] * b[1], a[2] * b[2])
RLessF[a \in Rat, b \in Rat] == a[1] * b[2] < b[1] * a[2]

RAdd(a, b) == RAddF[a, b]
RSub(a, b) == RSubF[a, b]
RMul(a, b) == RMulF[a, b]
RLess(a, b) == RLessF[a, b]
IsZero(a) == a[1] = 0

RPowF[a \in Rat, k \in Nat] == IF k = 0 THEN R(1) ELSE RMul(a, RPowF[a, k - 1])

RPow(a, k) == RPowF[a, k]

NoneVal == <<>>
Ok(v) == [ok |-> TRUE, val |-> v, exc |-> ""]
Raise(e) == [ok |-> FALSE, val |-> NoneVal, exc |-> e]

\* An exception raised by r propagates; otherwise F continues with r's value.
\* (r is bound once.)
Then(r, F(_)) == CHOOSE y \in {IF x.ok THEN F(x.val) ELSE x : x \in {r}} : TRUE

RQuotF[a \in Rat, b \in Rat] == Norm(a[1] * b[2], a[2] * b[1])

RDivZeroIsZeroF[a \in Rat, b \in Rat] ==
    IF IsZero(b) THEN Ok(R(0)) ELSE Ok(RQuotF[a, b])

RDivZeroIsZero(a, b) == RDivZeroIsZeroF[a, b]

RDivF[a \in Rat, b \in Rat] ==
    IF IsZero(b) THEN Raise("ZeroDivisionError") ELSE Ok(RQuotF[a, b])

\* a / b of Python: ZeroDivisionError when b is zero.
RDiv(a, b) == RDivF[a, b]

TruncF[q \in Rat] == IF q[1] < 0 THEN -((-q[1]) \div q[2]) ELSE q[1] \div q[2]

RFloorDivTruncF[a \in Rat, b \in Rat] ==
    IF IsZero(b) THEN Raise("ZeroDivisionError") ELSE Ok(R(TruncF[RQuotF[a, b]]))

RFloorDivTrunc(a, b) == RFloorDivTruncF[a, b]

FloorF[q \in Rat] == q[1] \div q[2]

RFloorDivF[a \in Rat, b \in Rat] ==
    IF IsZero(b) THEN Raise("ZeroDivisionError") ELSE Ok(R(FloorF[RQuotF[a, b]]))

\* a // b of Python: floor of the quotient, ZeroDivisionError when b is zero.
RFloorDiv(a, b) == RFloorDivF[a, b]

(************************* class-level constants ***************************)
M_IN_KM == 1000
MIN_IN_HOUR == 60

LEN_STEP_Shared(cls) == Q(13, 20)

\* LEN_STEP as self.LEN_STEP resolves it: Swimming overrides 0.65 by 1.38.
LEN_STEP(cls) == IF cls = "Swimming" THEN Q(69, 50) ELSE Q(13, 20)

Running_coeff_calorie1 == 18
Running_coeff_calorie2 == 20
Walking_coeff_calorie1 == Q(35, 1000)
Walking_coeff_calorie2 == 2
Walking_coeff_calorie3 == Q(29, 1000)
Swimming_coeff_calorie1 == Q(11, 10)
Swimming_coeff_calorie2 == 2

(****************************** constructors *******************************)
NoObj == [cls |-> "NoneType"]

Arity(cls) ==
    CASE cls = "Swimming" -> 5
      [] cls = "SportsWalking" -> 4
      [] OTHER -> 3

Training_init(cls, args) ==
    [cls |-> cls, action |-> args[1], duration |-> args[2], weight |-> args[3]]

SportsWalking_init(args) ==
    [cls |-> "SportsWalking", action |-> args[1], duration |-> args[2],
     weight |-> args[3], height |-> args[4]]

Swimming_init(args) ==
    [cls |-> "Swimming", action |-> args[1], duration |-> args[2],
     weight |-> args[3], length_pool |-> args[4], count_pool |-> args[5]]

Build(cls, args) ==
    CASE cls = "Swimming" -> Swimming_init(args)
      [] cls = "SportsWalking" -> SportsWalking_init(args)
      [] OTHER -> Training_init(cls, args)

\* cls(*args) accepting a list that is too long (extras dropped).
NewDropExtra(cls, args) ==
    IF Len(args) < Arity(cls) THEN Raise("TypeError") ELSE Ok(Build(cls, args))

\* cls(*args): TypeError unless the argument count is the signature's.
New(cls, args) ==
    IF Len(args) # Arity(cls) THEN Raise("TypeError") ELSE Ok(Build(cls, args))

(********************************* methods *********************************)
Training_get_distance(self) ==
    RDiv(RMul(self.action, LEN_STEP(self.cls)), R(M_IN_KM))

get_distance(self) == Training_get_distance(self)

Training_get_mean_speed(self) ==
    Then(get_distance(self), LAMBDA dist : RDiv(dist, self.duration))

Swimming_get_mean_speed_ByDistance(self) == Training_get_mean_speed(self)

Swimming_get_mean_speed(self) ==
    Then(RDiv(RMul(self.length_pool, self.count_pool), R(M_IN_KM)),
         LAMBDA km : RDiv(km, self.duration))

get_mean_speed(self) ==
    IF self.cls = "Swimming" THEN Swimming_get_mean_speed(self)
    ELSE Training_get_mean_speed(self)

\* The body of Training.get_spent_calories is a docstring: it returns None.
Training_get_spent_calories(self) == Ok(NoneVal)

\* (coeff_calorie1 * speed - coeff_calorie2) * weight / M_IN_KM
\*     * duration * MIN_IN_HOUR
RunningFormula(self, speed) ==
    Then(RDiv(RMul(RSub(RMul(R(Running_coeff_calorie1), speed),
                        R(Running_coeff_calorie2)),
                   self.weight),
              R(M_IN_KM)),
         LAMBDA perkm : Ok(RMul(RMul(perkm, self.duration), R(MIN_IN_HOUR))))

NonNegative(c) == IF RLess(c, R(0)) THEN R(0) ELSE c

Running_get_spent_calories_Clamped(self) ==
    Then(get_mean_speed(self),
         LAMBDA speed : Then(RunningFormula(self, speed),
                             LAMBDA c : Ok(NonNegative(c))))

Running_get_spent_calories_NoMinutes(self) ==
    Then(get_mean_speed(self),
         LAMBDA speed : Then(RunningFormula(self, speed),
                             LAMBDA c : RDiv(c, R(MIN_IN_HOUR))))

Running_get_spent_calories(self) ==
    Then(get_mean_speed(self), LAMBDA speed : RunningFormula(self, speed))

\* (coeff_calorie1 * weight + (speed ** coeff_calorie2 // height)
\*     * coeff_calorie3 * weight) * duration * MIN_IN_HOUR
WalkingFormula(self, floored) ==
    RMul(RMul(RAdd(RMul(Walking_coeff_calorie1, self.weight),
                   RMul(RMul(floored, Walking_coeff_calorie3), self.weight)),
              self.duration),
         R(MIN_IN_HOUR))

SportsWalking_get_spent_calories(self) ==
    Then(get_mean_speed(self),
         LAMBDA speed :
             Then(RFloorDiv(RPow(speed, Walking_coeff_calorie2), self.height),
                  LAMBDA floored : Ok(WalkingFormula(self, floored))))

Swimming_get_spent_calories(self) ==
    Then(get_mean_speed(self),
         LAMBDA speed : Ok(RMul(RMul(RAdd(speed, Swimming_coeff_calorie1),
                                     R(Swimming_coeff_calorie2)),
                                self.weight)))

get_spent_calories(self) ==
    CASE self.cls = "Running" -> Running_get_spent_calories(self)
      [] self.cls = "SportsWalking" -> SportsWalking_get_spent_calories(self)
      [] self.cls = "Swimming" -> Swimming_get_spent_calories(self)
      [] OTHER -> Training_get_spent_calories(self)

InfoMessage(training_type, duration, distance, speed, calories) ==
    [training_type |-> training_type, duration |-> duration,
     distance |-> distance, speed |-> speed, calories |-> calories]

\* The arguments are evaluated left to right; the first exception propagates.
show_training_info(self) ==
    Then(get_distance(self), LAMBDA dist :
    Then(get_mean_speed(self), LAMBDA speed :
    Then(get_spent_calories(self), LAMBDA cal :
         Ok(InfoMessage(self.cls, self.duration, dist, speed, cal)))))

\* round-half-even of x / d for x >= 0, d > 0
RoundF[x \in Nat, d \in Nat] ==
    IF 2 * (x % d) > d \/ (2 * (x % d) = d /\ (x \div d) % 2 = 1)
    THEN (x \div d) + 1
    ELSE x \div d

Digits[neg \in BOOLEAN, t \in Nat] ==
    [neg |-> neg, whole |-> t \div 1000, frac |-> t % 1000]

\* '{:.3f}': sign, whole part and three decimals, round-half-even.
Fmt3(r) == Digits[r[1] < 0, RoundF[Abs(r[1]) * 1000, r[2]]]

\* The text of the message: the class name and the four formatted numbers;
\* formatting None with '.3f' raises TypeError.
get_message(info) ==
    IF \E f \in {"duration", "distance", "speed", "calories"} : info[f] = NoneVal
    THEN Raise("TypeError")
    ELSE Ok([training_type |-> info.training_type,
             duration |-> Fmt3(info.duration), distance |-> Fmt3(info.distance),
             speed |-> Fmt3(info.speed), calories |-> Fmt3(info.calories)])

(******************************* dispatcher ********************************)
activities == [w \in {"SWM", "RUN", "WLK"} |->
                 CASE w = "SWM" -> "Swimming"
                   [] w = "RUN" -> "Running"
                   [] w = "WLK" -> "SportsWalking"]

read_package_Default(wt, d) ==
    IF wt \notin DOMAIN activities THEN New("Running", d)
    ELSE New(activities[wt], d)

read_package(wt, d) ==
    IF wt \notin DOMAIN activities THEN Raise("KeyError")
    ELSE New(activities[wt], d)

\* main(training): the message is printed only when both calls return.
main(self) == Then(show_training_info(self), LAMBDA info : get_message(info))

(***************************** input domains *******************************)
Actions == {R(0), R(720), R(2000), R(9000), R(15000)}
Durations == {R(0), R(1), Q(117, 100), Q(1, 2)}
Weights == {R(75), R(80), R(-5)}
Fourths == {R(180), R(25), R(0), R(-10), R(10)}
Fifths == {R(40), R(0), R(3)}
Extras == {R(1)}

ArgSet(i) ==
    CASE i = 1 -> Actions
      [] i = 2 -> Durations
      [] i = 3 -> Weights
      [] i = 4 -> Fourths
      [] i = 5 -> Fifths
      [] OTHER -> Extras

\* The lists of length n whose i-th element is drawn from ArgSet(i).
Lists[n \in Nat] ==
    IF n = 0 THEN {<<>>}
    ELSE {Append(s, x) : s \in Lists[n - 1], x \in ArgSet(n)}

DataLists == UNION {Lists[n] : n \in 0..MaxData}

Codes == {"SWM", "RUN", "WLK", "XYZ", ""}

\* The three rows of the __main__ block.
ReferencePackages ==
    << <<"SWM", <<R(720), R(1), R(80), R(25), R(40)>> >>,
       <<"RUN", <<R(15000), R(1), R(75)>> >>,
       <<"WLK", <<R(9000), R(1), R(75), R(180)>> >> >>

\* Rows the loop may be given: the reference rows and rows that fail.
RowSet ==
    {ReferencePackages[i] : i \in 1..3} \cup
    { <<"XYZ", <<R(720), R(1), R(80)>> >>,
      <<"RUN", <<R(15000), R(1)>> >>,
      <<"RUN", <<R(15000), R(0), R(75)>> >>,
      <<"WLK", <<R(9000), R(1), R(75), R(0)>> >>,
      <<"SWM", <<R(720), R(1), R(80), R(25), R(40), R(1)>> >> }

PackageLists == UNION {[1..n -> RowSet] : n \in 0..MaxRows}

(********************** the program: the __main__ loop *********************)
Init ==
    /\ packages \in PackageLists
    /\ idx = 0
    /\ pc = "loop"
    /\ out = <<>>
    /\ workout_type = ""
    /\ data = <<>>
    /\ training = NoObj
    /\ op = "start"
    /\ res = Ok(NoneVal)

\* for workout_type, data in packages: training = read_package(...)
DriverReadPackage ==
    /\ pc = "loop"
    /\ idx < Len(packages)
    /\ \E r \in {read_package(packages[idx + 1][1], packages[idx + 1][2])} :
           /\ idx' = idx + 1
           /\ workout_type' = packages[idx + 1][1]
           /\ data' = packages[idx + 1][2]
           /\ op' = "read_package"
           /\ res' = r
           /\ training' = IF r.ok THEN r.val ELSE training
           /\ pc' = IF r.ok THEN "main" ELSE "aborted"
    /\ UNCHANGED <<packages, out>>

\* main(training) with the failure of a row caught and the loop continued.
DriverMain_Continue ==
    /\ pc = "main"
    /\ \E r \in {main(training)} :
           /\ op' = "main"
           /\ res' = r
           /\ out' = IF r.ok THEN Append(out, r.val) ELSE out
           /\ pc' = "loop"
    /\ UNCHANGED <<workout_type, data, training, packages, idx>>

\* main(training): an exception leaves the loop and ends the program.
DriverMain ==
    /\ pc = "main"
    /\ \E r \in {main(training)} :
           /\ op' = "main"
           /\ res' = r
           /\ out' = IF r.ok THEN Append(out, r.val) ELSE out
           /\ pc' = IF r.ok THEN "loop" ELSE "aborted"
    /\ UNCHANGED <<workout_type, data, training, packages, idx>>

\* The list is exhausted: the program ends normally.
DriverExit ==
    /\ pc = "loop"
    /\ idx = Len(packages)
    /\ pc' = "done"
    /\ UNCHANGED <<workout_type, data, training, op, res, packages, idx, out>>

Next == DriverReadPackage \/ DriverMain \/ DriverExit

Spec == Init /\ [][Next]_vars

\* The program is one thread that runs to completion.
FairSpec == Spec /\ WF_vars(Next)

(******************** the module used as a library *************************)
LibInit ==
    /\ workout_type \in Codes
    /\ data \in DataLists
    /\ training = NoObj
    /\ op = "start"
    /\ res = Ok(NoneVal)
    /\ out = <<>>
    /\ packages = <<>>
    /\ idx = 0
    /\ pc = "lib"

Bound(o) == training.cls # "NoneType" /\ op' = o

Returned(r) ==
    /\ res' = r
    /\ UNCHANGED <<workout_type, data, training, packages, idx, pc, out>>

CallReadPackage ==
    \E r \in {read_package(workout_type, data)} :
        /\ op' = "read_package"
        /\ res' = r
        /\ training' = IF r.ok THEN r.val ELSE training
        /\ UNCHANGED <<workout_type, data, packages, idx, pc, out>>

\* Training(*data): the base class called directly.
CallTraining ==
    \E r \in {New("Training", data)} :
        /\ op' = "Training"
        /\ res' = r
        /\ training' = IF r.ok THEN r.val ELSE training
        /\ UNCHANGED <<workout_type, data, packages, idx, pc, out>>

CallGetDistance == Bound("get_distance") /\ Returned(get_distance(training))

CallGetMeanSpeed == Bound("get_mean_speed") /\ Returned(get_mean_speed(training))

CallGetSpentCalories ==
    Bound("get_spent_calories") /\ Returned(get_spent_calories(training))

CallShowTrainingInfo ==
    Bound("show_training_info") /\ Returned(show_training_info(training))

\* get_message on the InfoMessage the previous call returned.
CallGetMessage ==
    /\ op = "show_training_info"
    /\ res.ok
    /\ op' = "get_message"
    /\ Returned(get_message(res.val))

CallMain ==
    /\ training.cls # "NoneType"
    /\ Len(out) < MaxPrinted
    /\ \E r \in {main(training)} :
           /\ op' = "main"
           /\ res' = r
           /\ out' = IF r.ok THEN Append(out, r.val) ELSE out
    /\ UNCHANGED <<workout_type, data, training, packages, idx, pc>>

LibNext ==
    \/ CallReadPackage
    \/ CallTraining
    \/ CallGetDistance
    \/ CallGetMeanSpeed
    \/ CallGetSpentCalories
    \/ CallShowTrainingInfo
    \/ CallGetMessage
    \/ CallMain

LibSpec == LibInit /\ [][LibNext]_vars

(******************************** the claims *******************************)
Recognized == {"SWM", "RUN", "WLK"}
Concrete == {"Running", "SportsWalking", "Swimming"}

\* C1: read_package with a type code other than SWM, RUN, WLK raises the
\* unknown-type error (KeyError) whatever the data list, and binds no
\* calculator of a dispatched class.
C1_UnknownTypeFails ==
    (op = "read_package" /\ workout_type \notin Recognized) =>
        /\ ~res.ok
        /\ res.exc = "KeyError"
        /\ training.cls \notin Concrete

C1_Witness ==
    /\ op = "read_package"
    /\ workout_type = "XYZ"
    /\ Len(data) = 3
    /\ ~res.ok

\* C2: for a recognized code read_package raises the argument-count error
\* (TypeError) when the list is shorter or longer than the class's arity
\* (3 RUN, 4 WLK, 5 SWM), and otherwise returns the calculator with data[i]
\* in the i-th constructor parameter.
C2_ExpectedArity(w) == CASE w = "RUN" -> 3 [] w = "WLK" -> 4 [] w = "SWM" -> 5

C2_ArityDecides ==
    (op = "read_package" /\ workout_type \in Recognized) =>
        IF Len(data) # C2_ExpectedArity(workout_type)
        THEN ~res.ok /\ res.exc = "TypeError" /\ training.cls \notin Concrete
        ELSE /\ res.ok
             /\ training = res.val
             /\ res.val.action = data[1]
             /\ res.val.duration = data[2]
             /\ res.val.weight = data[3]
             /\ workout_type = "RUN" =>
                    /\ res.val.cls = "Running"
                    /\ DOMAIN res.val = {"cls", "action", "duration", "weight"}
             /\ workout_type = "WLK" =>
                    /\ res.val.cls = "SportsWalking"
                    /\ res.val.height = data[4]
             /\ workout_type = "SWM" =>
                    /\ res.val.cls = "Swimming"
                    /\ res.val.length_pool = data[4]
                    /\ res.val.count_pool = data[5]

C2_Witness ==
    /\ op = "read_package"
    /\ workout_type = "SWM"
    /\ Len(data) = 6
    /\ ~res.ok

\* C3 as stated: the RUN reference row has mean speed 9.75 and calories 700.5.
C3_RunReferenceData == <<R(15000), R(1), R(75)>>

C3_Original ==
    (workout_type = "RUN" /\ data = C3_RunReferenceData
     /\ training.cls = "Running" /\ op = "show_training_info") =>
        /\ res.ok
        /\ res.val.speed = Q(975, 100)
        /\ res.val.calories = Q(7005, 10)

\* C3 (amended): read_package("RUN", [15000, 1, 75]) returns a Running
\* calculator whose mean speed is 9.75 km/h and whose summary calories,
\* (18 x 9.75 - 20) x 75 / 1000 x 1 x 60, are 699.75.
C3_RunReference ==
    (workout_type = "RUN" /\ data = C3_RunReferenceData) =>
        /\ op = "read_package" =>
               res.ok /\ res.val.cls = "Running" /\ training = res.val
        /\ (training.cls = "Running" /\ op = "get_mean_speed") =>
               res = Ok(Q(975, 100))
        /\ (training.cls = "Running" /\ op = "show_training_info") =>
               /\ res.ok
               /\ res.val.training_type = "Running"
               /\ res.val.speed = Q(975, 100)
               /\ res.val.calories = Q(69975, 100)

C3_Witness ==
    /\ workout_type = "RUN"
    /\ data = C3_RunReferenceData
    /\ training.cls = "Running"
    /\ op = "show_training_info"
    /\ res.ok

\* C4: read_package("SWM", [720, 1, 80, 25, 40]) returns a Swimming
\* calculator whose summary has distance 0.9936 km (stride 1.38 through the
\* inherited get_distance), mean speed 1.0 km/h and calories 336.0.
C4_SwmReferenceData == <<R(720), R(1), R(80), R(25), R(40)>>

C4_SwmReference ==
    (workout_type = "SWM" /\ data = C4_SwmReferenceData) =>
        /\ op = "read_package" =>
               res.ok /\ res.val.cls = "Swimming" /\ training = res.val
        /\ (training.cls = "Swimming" /\ op = "show_training_info") =>
               /\ res.ok
               /\ res.val.training_type = "Swimming"
               /\ res.val.distance = Q(9936, 10000)
               /\ res.val.speed = R(1)
               /\ res.val.calories = R(336)

C4_Witness ==
    /\ workout_type = "SWM"
    /\ data = C4_SwmReferenceData
    /\ training.cls = "Swimming"
    /\ op = "show_training_info"
    /\ res.ok

\* C5: get_spent_calories and show_training_info called on an instance of
\* the base class Training are errors: neither returns normally.
C5_BaseCaloriesIsError ==
    (training.cls = "Training"
     /\ op \in {"get_spent_calories", "show_training_info"}) => ~res.ok

\* C6: for a SportsWalking calculator with nonzero duration and height,
\* calories = (0.035 w + floor(speed^2 / height) x 0.029 w) x duration x 60,
\* the floor rounding toward minus infinity; when 0 <= speed^2 < height
\* the calories are 0.035 w x duration x 60.
C6_Speed(self) ==
    RDiv(RDiv(RMul(self.action, Q(65, 100)), R(1000)).val, self.duration).val

C6_Floor(x) == CHOOSE k \in -1000..1000 : k * x[2] <= x[1] /\ x[1] < (k + 1) * x[2]

C6_Expected(self) ==
    LET sq == RMul(C6_Speed(self), C6_Speed(self))
        k == C6_Floor(RDiv(sq, self.height).val)
    IN  RMul(RMul(RAdd(RMul(Q(35, 1000), self.weight),
                       RMul(RMul(R(k), Q(29, 1000)), self.weight)),
                  self.duration), R(60))

C6_WalkingFloorDivision ==
    (training.cls = "SportsWalking" /\ op = "get_spent_calories"
     /\ ~IsZero(training.duration) /\ ~IsZero(training.height)) =>
        /\ res = Ok(C6_Expected(training))
        /\ LET sq == RMul(C6_Speed(training), C6_Speed(training))
           IN  RLess(sq, training.height) =>
                   res.val = RMul(RMul(RMul(Q(35, 1000), training.weight),
                                       training.duration), R(60))

C6_Witness ==
    /\ training.cls = "SportsWalking"
    /\ op = "get_spent_calories"
    /\ ~IsZero(training.duration)
    /\ RLess(training.height, R(0))
    /\ ~IsZero(training.action)
    /\ res.ok

\* C7: for a Running, SportsWalking or Swimming calculator with duration 0,
\* get_mean_speed, get_spent_calories, show_training_info and main raise
\* ZeroDivisionError, nothing is formatted or printed, and get_distance
\* returns normally.
C7_ZeroDurationRaises ==
    (training.cls \in Concrete /\ IsZero(training.duration)) =>
        /\ op \in {"get_mean_speed", "get_spent_calories",
                   "show_training_info", "main"} =>
               ~res.ok /\ res.exc = "ZeroDivisionError"
        /\ op # "get_message"
        /\ out = <<>>
        /\ op = "get_distance" => res.ok

C7_Witness ==
    /\ training.cls = "Swimming"
    /\ IsZero(training.duration)
    /\ op = "main"
    /\ ~res.ok

\* C8: for a Swimming calculator with nonzero duration, mean speed is
\* length_pool x count_pool / 1000 / duration; changing action alone leaves
\* mean speed and calories unchanged and changes the distance
\* (action x 1.38 / 1000).
C8_WithAction(self, a) == [self EXCEPT !.action = a]

C8_SwimmingSpeedIgnoresAction ==
    (training.cls = "Swimming" /\ ~IsZero(training.duration)) =>
        /\ op = "get_mean_speed" =>
               /\ res.ok
               /\ RMul(RMul(res.val, training.duration), R(1000))
                      = RMul(training.length_pool, training.count_pool)
               /\ \A a \in Actions : get_mean_speed(C8_WithAction(training, a)) = res
        /\ op = "get_spent_calories" =>
               \A a \in Actions : get_spent_calories(C8_WithAction(training, a)) = res
        /\ op = "get_distance" =>
               /\ res.ok
               /\ RMul(res.val, R(1000)) = RMul(training.action, Q(138, 100))
               /\ \A a \in Actions \ {training.action} :
                      get_distance(C8_WithAction(training, a)) # res

\* The summary of a Swimming calculator whose distance is not speed x duration.
C8_Witness ==
    /\ training.cls = "Swimming"
    /\ ~IsZero(training.duration)
    /\ op = "show_training_info"
    /\ res.ok
    /\ res.val.distance # RMul(res.val.speed, res.val.duration)

\* C10: for a Running calculator with positive weight and duration, calories
\* are negative exactly when 18 x action x 0.65 / 1000 < 20 x duration, zero
\* exactly when the two are equal and positive otherwise, and the summary
\* carries that value unchanged.
C10_Lhs(self) == RDiv(RMul(RMul(R(18), self.action), Q(65, 100)), R(1000)).val

C10_Rhs(self) == RMul(R(20), self.duration)

C10_SignLaw(self, c) ==
    /\ RLess(c, R(0)) <=> RLess(C10_Lhs(self), C10_Rhs(self))
    /\ IsZero(c) <=> C10_Lhs(self) = C10_Rhs(self)
    /\ RLess(R(0), c) <=> RLess(C10_Rhs(self), C10_Lhs(self))

C10_RunningCaloriesSign ==
    (training.cls = "Running" /\ RLess(R(0), training.weight)
     /\ RLess(R(0), training.duration)) =>
        /\ op = "get_spent_calories" => res.ok /\ C10_SignLaw(training, res.val)
        /\ op = "show_training_info" =>
               res.ok /\ C10_SignLaw(training, res.val.calories)
        /\ op = "main" =>
               /\ res.ok
               /\ res.val.calories.neg =>
                      RLess(C10_Lhs(training), C10_Rhs(training))

C10_Witness ==
    /\ training.cls = "Running"
    /\ RLess(R(0), training.weight)
    /\ op = "show_training_info"
    /\ res.ok
    /\ RLess(res.val.calories, R(0))

\* C9: the loop handles the rows in list order, one at a time: the lines
\* printed so far are the messages of a prefix of the list; the program ends
\* normally with one line per row when no row fails, and aborts at the first
\* failing row k with exactly the lines of the rows before k; it always ends.
C9_Outcome(row) ==
    Then(read_package(row[1], row[2]), LAMBDA t : main(t))

C9_FirstFail ==
    IF \E k \in 1..Len(packages) : ~C9_Outcome(packages[k]).ok
    THEN CHOOSE k \in 1..Len(packages) :
             /\ ~C9_Outcome(packages[k]).ok
             /\ \A j \in 1..(k - 1) : C9_Outcome(packages[j]).ok
    ELSE Len(packages) + 1

C9_PrefixPrinted ==
    /\ Len(out) < C9_FirstFail
    /\ out = [i \in 1..Len(out) |-> C9_Outcome(packages[i]).val]
    /\ pc = "loop" => Len(out) = idx
    /\ pc = "main" => Len(out) = idx - 1
    /\ pc = "done" =>
           /\ C9_FirstFail = Len(packages) + 1
           /\ Len(out) = Len(packages)
           /\ packages = ReferencePackages =>
                  [i \in 1..3 |-> out[i].training_type]
                      = <<"Swimming", "Running", "SportsWalking">>
    /\ pc = "aborted" =>
           /\ idx = C9_FirstFail
           /\ Len(out) = C9_FirstFail - 1

C9_RowsInOrder == []C9_PrefixPrinted /\ <>(pc \in {"done", "aborted"})

C9_Witness ==
    /\ pc = "aborted"
    /\ op = "main"
    /\ Len(out) >= 1
    /\ idx < Len(packages)

====
